---------------------------- MODULE Spec2Model ----------------------------
(***************************************************************************)
(* FAQ chatbot matching core: the text normalizer (TextPreprocessor), the  *)
(* preprocessing pipeline (PreprocessingPipeline) and the retrieval engine *)
(* (QuestionMatcher).                                                      *)
(*                                                                         *)
(* A Python str is a sequence of one-character strings.  Scores are fixed  *)
(* point: the integer k stands for the float k / Scale.                    *)
(***************************************************************************)
EXTENDS Integers, Sequences, FiniteSets, TLC

VARIABLES
    pc,            \* position of the caller: "new", "idle", "returned", "failed"
                   \* for a matcher, "ready", "answered" for a preprocessor
    faq_database,  \* QuestionMatcher.faq_database.faqs
    config,        \* QuestionMatcher.config (MatcherConfig)
    corpus_questions,           \* preprocessed corpus rows
    corpus_faqs,                \* row -> index of the owning FAQ in faq_database
    corpus_original_questions,  \* row -> question string before preprocessing
    vocabulary,    \* vectorizer.vocabulary_ (terms of the fitted vectorizer)
    corpus_vectors,  \* row -> the terms with a non-zero weight in its vector
    call,          \* the operation the caller invoked last, with its arguments
    ret,           \* what that operation returned
    vectorized,    \* whether that operation called vectorizer.transform
    similarities,  \* the cosine_similarity row that operation computed
    steps,         \* PreprocessingPipeline.steps
    adds,          \* number of add_step calls made so far
    twin,          \* a second QuestionMatcher built from the same arguments
    tpc,           \* thread -> its position in match_with_alternatives
    local,         \* thread -> the local variables of its call
    cosine,        \* the values cosine_similarity has returned, by arguments
    cache,         \* the lru_cache of preprocess_cached, oldest entry first
    conversation_history,  \* Chatbot.conversation_history
    asks           \* number of ask calls with a query that is not blank
                   \* since the history was last empty by construction or
                   \* clear_history

vars == << pc, faq_database, config, corpus_questions, corpus_faqs,
           corpus_original_questions, vocabulary, corpus_vectors, call, ret,
           vectorized, similarities, steps, adds, twin, tpc, local, cosine,
           cache, conversation_history, asks >>

\* the state of the chatbot around its matcher
chatVars == << conversation_history, asks >>

\* the state of the threads that share matchers or a preprocessor
threadVars == << twin, tpc, local, cosine, cache >>

(***************************************************************************)
(* Bounds of the model.                                                    *)
(***************************************************************************)
MaxQueryLen == 3
Scale == 3
MaxSuggestions == 2
MaxAdds == 1
MaxTopN == 2
NumThreads == 2
MaxAsks == 2
\* the capacity of the cache of preprocess_cached: lru_cache(maxsize=1000),
\* brought down to the number of texts of the model
maxsize == 2

(***************************************************************************)
(* Strings.                                                                *)
(***************************************************************************)
Whitespace == {" "}
\* string.punctuation, restricted to the characters of the model
Punctuation == {"?", "@", "'", "!", "#"}
Digits == {"1"}
UpperCase == {"U"}
LowerCase == {"a", "i", "m", "s", "u"}
WordChars == LowerCase \cup UpperCase \cup Digits
Chars == Whitespace \cup Punctuation \cup WordChars

\* all strings over the characters cs of length at most n
StringsUpTo(cs, n) == UNION { [1..k -> cs] : k \in 0..n }

\* str.lower on one character
LowerChar(c) == IF c = "U" THEN "u" ELSE c

\* variant of Lower: the text is left in the case it came in
LowerSkipped(s) == s

\* str.lower
Lower(s) == [i \in 1..Len(s) |-> LowerChar(s[i])]

\* s without the characters of the set drop
RECURSIVE FilterChars(_, _)
FilterChars(s, drop) ==
    IF s = << >> THEN << >>
    ELSE IF Head(s) \in drop THEN FilterChars(Tail(s), drop)
         ELSE << Head(s) >> \o FilterChars(Tail(s), drop)

\* str.split(): the maximal runs of non-whitespace characters
RECURSIVE SplitFrom(_, _)
SplitFrom(s, word) ==
    IF s = << >> THEN (IF word = << >> THEN << >> ELSE << word >>)
    ELSE IF Head(s) \in Whitespace
         THEN (IF word = << >> THEN << >> ELSE << word >>)
              \o SplitFrom(Tail(s), << >>)
         ELSE SplitFrom(Tail(s), Append(word, Head(s)))

Split(s) == SplitFrom(s, << >>)

\* ' '.join(tokens)
RECURSIVE Join(_)
Join(tokens) ==
    IF tokens = << >> THEN << >>
    ELSE IF Len(tokens) = 1 THEN tokens[1]
         ELSE tokens[1] \o << " " >> \o Join(Tail(tokens))

\* not text or not text.strip()
IsBlank(s) == \A i \in 1..Len(s) : s[i] \in Whitespace

\* the index of the first character of the whitespace-free run holding s[i]
RECURSIVE RunStart(_, _)
RunStart(s, i) ==
    IF i = 1 \/ s[i - 1] \in Whitespace THEN i ELSE RunStart(s, i - 1)

\* the index of the last character of the whitespace-free run holding s[i]
RECURSIVE RunEnd(_, _)
RunEnd(s, i) ==
    IF i = Len(s) \/ s[i + 1] \in Whitespace THEN i ELSE RunEnd(s, i + 1)

\* the characters of s at the indices in keep, in order
RECURSIVE SelectIndices(_, _, _)
SelectIndices(s, keep, i) ==
    IF i > Len(s) THEN << >>
    ELSE (IF i \in keep THEN << s[i] >> ELSE << >>)
         \o SelectIndices(s, keep, i + 1)

(***************************************************************************)
(* TextPreprocessor.                                                       *)
(***************************************************************************)
min_word_length == 2

\* PreprocessorConfig() with its default values
PreprocessorConfig ==
    [ min_word_length   |-> min_word_length,
      use_lemmatization |-> TRUE,
      remove_numbers    |-> FALSE,
      custom_stop_words |-> {} ]

\* the words of the stop word list that can be written with LowerCase
StopWordList == { << "i" >>, << "a" >>, << "a", "m" >>, << "i", "s" >>,
                  << "a", "s" >> }

\* _load_stop_words: the base list and the lowercased custom stop words
StopWords(cfg) == StopWordList \cup { Lower(w) : w \in cfg.custom_stop_words }

\* re.sub(r'\S+@\S+', '', text): a whitespace-free run with an "@" that is
\* neither its first nor its last character matches from its first to its
\* last character and is deleted; any other run has no match
RemoveEmails(s) ==
    LET isEmail(i) == \E k \in (RunStart(s, i) + 1)..(RunEnd(s, i) - 1) :
                          s[k] = "@"
        keep == { i \in 1..Len(s) : s[i] \in Whitespace \/ ~isEmail(i) }
    IN  SelectIndices(s, keep, 1)

\* _clean_text.  The URL pattern r'https?://\S+|www\.\S+' needs ":", "/" or
\* "." and so matches in no string over Chars.
CleanText(cfg, text) ==
    LET lowered == Lower(text)
        noEmail == RemoveEmails(lowered)
        noDigit == IF cfg.remove_numbers THEN FilterChars(noEmail, Digits)
                   ELSE noEmail
        noPunct == FilterChars(noDigit, Punctuation)
    IN  Join(Split(noPunct))

\* _tokenize: word_tokenize, which on text holding only letters, digits and
\* single spaces yields the whitespace-separated words, as the fallback does
Tokenize(text) == Split(text)

\* _remove_stop_words
RemoveStopWords(cfg, tokens) ==
    SelectSeq(tokens, LAMBDA t : t \notin StopWords(cfg))

\* _filter_by_length
FilterByLength(cfg, tokens) ==
    SelectSeq(tokens, LAMBDA t : Len(t) >= cfg.min_word_length)

\* WordNetLemmatizer.lemmatize on one token: "us" has the shorter noun
\* lemma "u"; the other tokens of the model are returned as they are
Lemma(token) == IF token = << "u", "s" >> THEN << "u" >> ELSE token

\* _lemmatize
Lemmatize(tokens) == [i \in 1..Len(tokens) |-> Lemma(tokens[i])]

\* preprocess
Preprocess(cfg, text) ==
    IF IsBlank(text) THEN << >>
    ELSE LET cleaned == CleanText(cfg, text)
             tokens  == FilterByLength(cfg,
                            RemoveStopWords(cfg, Tokenize(cleaned)))
         IN  Join(IF cfg.use_lemmatization THEN Lemmatize(tokens) ELSE tokens)

(***************************************************************************)
(* FAQ data model.                                                         *)
(***************************************************************************)
\* Optional[...]: None is the empty sequence, a value x is << x >>
None == << >>
Some(x) == << x >>

\* variant of all_questions: the alternates in front of the question
all_questions_AlternatesFirst(faq) ==
    faq.alternate_questions \o << faq.question >>

\* FAQ.all_questions
all_questions(faq) == << faq.question >> \o faq.alternate_questions

FAQ(id, category, question, alternates) ==
    [ id |-> id, category |-> category, question |-> question,
      alternate_questions |-> alternates ]

\* FAQDatabase.__post_init__: not empty, no duplicate ids
ValidDatabase(faqs) ==
    /\ faqs # << >>
    /\ \A i, j \in 1..Len(faqs) : faqs[i].id = faqs[j].id => i = j

\* FAQ.__post_init__: the question is not blank
ValidFAQ(faq) == ~IsBlank(faq.question)

\* the FAQ databases the matcher is built from
Databases ==
    { \* two entries with alternates; "uu" is a paraphrase of both
      << FAQ("f1", "technical", << "U", "u", "?" >>,
             << << "s", "u", " ", "u", "u" >> >>),
         FAQ("f2", "general", << "s", "u" >>, << << "u", "u" >> >>) >>,
      \* three entries, the second in front of a paraphrase-rich third
      << FAQ("f1", "general", << "s", "s" >>, << >>),
         FAQ("f2", "technical", << "a", " ", "s", "u" >>, << >>),
         FAQ("f3", "technical", << "s", "u", "?" >>,
             << << "s", "s", " ", "s", "u" >> >>) >>,
      \* an entry whose only question is a stop word, and one that is not
      << FAQ("f1", "general", << "a", "s" >>, << >>),
         FAQ("f2", "general", << "u", "u" >>, << << "i", "s" >> >>) >>,
      \* every question is a stop word
      << FAQ("f1", "general", << "a", "s" >>, << << "a" >> >>) >>,
      \* two entries no row of which is a single word: a one-word query
      \* matches them in part only
      << FAQ("f1", "technical", << "s", "u", " ", "u", "u" >>, << >>),
         FAQ("f2", "general", << "u", "u", " ", "s", "s" >>,
             << << "s", "s", "?" >> >>) >>,
      \* two entries asking the same thing in different spelling, and a
      \* third that shares a word with them
      << FAQ("f1", "general", << "s", "u" >>, << >>),
         FAQ("f2", "general", << "s", "U", "?" >>, << >>),
         FAQ("f3", "technical", << "s", "u", " ", "s", "s" >>, << >>) >>,
      \* a database whose faqs list was emptied after it was validated
      << >> }

Categories == {"technical", "general"}

(***************************************************************************)
(* QuestionMatcher.                                                        *)
(***************************************************************************)
Scores == 0..Scale

\* MatcherConfig.max_features
max_features == 1000

\* MatcherConfig: the thresholds are scores, max_suggestions an int
MatcherConfigs ==
    [ similarity_threshold     : Scores,
      max_suggestions          : 0..MaxSuggestions,
      low_confidence_threshold : {(Scale + 1) \div 2} ]

\* the tokens TfidfVectorizer's token_pattern r'(?u)\b\w\w+\b' finds in a
\* preprocessed text: the words of two or more characters
VectorizerTokens(text) == SelectSeq(Split(text), LAMBDA t : Len(t) >= 2)

\* the terms of a text for ngram_range (1, 2): its tokens and its pairs of
\* adjacent tokens
Terms(text) ==
    LET toks == VectorizerTokens(text)
    IN  { << toks[i] >> : i \in 1..Len(toks) }
        \cup { << toks[i], toks[i + 1] >> : i \in 1..(Len(toks) - 1) }

\* the rows _build_corpus collects for the entries from the k-th on:
\* entry order, the question first, then the alternates in order
RECURSIVE CorpusRows(_, _)
CorpusRows(faqs, k) ==
    IF k > Len(faqs) THEN << >>
    ELSE LET qs == all_questions(faqs[k])
         IN  [ i \in 1..Len(qs) |->
                   [ original |-> qs[i],
                     question |-> Preprocess(PreprocessorConfig, qs[i]),
                     faq      |-> faqs[k] ] ]
             \o CorpusRows(faqs, k + 1)

\* what cosine_similarity returns for two vectors: a score, or a float just
\* above 1.0 (Scale + 1), which the rounding of the dot product of two
\* parallel unit vectors gives (0.7071067811865476 squared, taken twice, is
\* 1.0000000000000002)
SimilarityValues == 0..(Scale + 1)

\* the rows of k values whose i-th value is one of allowed[i]
RECURSIVE ValueRows(_, _)
ValueRows(allowed, k) ==
    IF k = 0 THEN { << >> }
    ELSE { Append(v, x) : v \in ValueRows(allowed, k - 1), x \in allowed[k] }

\* cosine_similarity(query_vector, corpus_vectors)[0] for a preprocessed
\* query: one value per row, any the library can return.  A row scores 0
\* exactly when it shares no term with the query; a row whose terms are the
\* terms of the query that are in the vocabulary is parallel to the query
\* (term counts are not modelled) and scores 1.0 or just above, no other row
\* scores above 1.0; rows with the same preprocessed text have the same
\* vector and so the same value.
SimilarityRows(query, rows) ==
    LET n == Len(rows)
        query_terms == Terms(query)
        row_terms == [ i \in 1..n |-> Terms(rows[i]) ]
        vocab == UNION { row_terms[i] : i \in 1..n }
        allowed == [ i \in 1..n |->
                       IF query_terms \cap row_terms[i] = {} THEN { 0 }
                       ELSE IF query_terms \cap vocab = row_terms[i]
                            THEN { Scale, Scale + 1 }
                            ELSE 1..Scale ]
    IN  { v \in ValueRows(allowed, n) :
            \A i, j \in 1..n : rows[i] = rows[j] => v[i] = v[j] }

\* variant of ValidScore: no range test
ValidScoreUnchecked(score) == TRUE

\* MatchResult.__post_init__: 0.0 <= similarity_score <= 1.0, or ValueError
ValidScore(score) == 0 <= score /\ score <= Scale

\* MatchResult(faq, similarity_score, matched_question); idx is the corpus
\* row the result was made from
MatchResult(faq, score, matched, idx) ==
    [ faq |-> faq, similarity_score |-> score, matched_question |-> matched,
      idx |-> idx ]

\* variant of InsertDesc: a descending sort that is not stable, a match goes
\* in front of the matches of equal score
RECURSIVE InsertDescUnstable(_, _)
InsertDescUnstable(sorted, m) ==
    IF sorted = << >> THEN << m >>
    ELSE IF Head(sorted).similarity_score > m.similarity_score
         THEN << Head(sorted) >> \o InsertDescUnstable(Tail(sorted), m)
         ELSE << m >> \o sorted

\* list.sort(key=similarity_score, reverse=True): descending and stable,
\* elements with equal keys keep their order
RECURSIVE InsertDesc(_, _)
InsertDesc(sorted, m) ==
    IF sorted = << >> THEN << m >>
    ELSE IF Head(sorted).similarity_score >= m.similarity_score
         THEN << Head(sorted) >> \o InsertDesc(Tail(sorted), m)
         ELSE << m >> \o sorted

\* variant of SortDesc: the matches stay in corpus order
SortDescSkipped(ms) == ms

\* matches.sort(...) of _get_all_matches, as repeated stable insertion
RECURSIVE SortDesc(_)
SortDesc(ms) ==
    IF ms = << >> THEN << >>
    ELSE InsertDesc(SortDesc(SubSeq(ms, 1, Len(ms) - 1)), ms[Len(ms)])

\* variant of AboveThreshold: every row sharing a term with the query passes
AboveThresholdAnyPositive(similarity, cfg) == similarity > 0

\* variant of AboveThreshold: the comparison turned around
AboveThresholdFlipped(similarity, cfg) ==
    similarity <= cfg.similarity_threshold

\* the threshold test of _get_all_matches: similarity >= similarity_threshold
AboveThreshold(similarity, cfg) == similarity >= cfg.similarity_threshold

\* the loop of _get_all_matches: a MatchResult for every row that passes
\* the threshold test, in corpus order
FilterMatches(sims, cfg, faqs, originals) ==
    SelectSeq([ i \in 1..Len(sims) |->
                  MatchResult(faqs[i], sims[i], originals[i], i) ],
              LAMBDA m : AboveThreshold(m.similarity_score, cfg))

\* _get_all_matches, given the similarities of the query to the rows
GetAllMatches(sims, cfg, faqs, originals) ==
    SortDesc(FilterMatches(sims, cfg, faqs, originals))

\* whether _get_all_matches raises: a row that passes the threshold test has
\* a value MatchResult rejects with ValueError
GetAllMatchesRaises(sims, cfg) ==
    \E i \in 1..Len(sims) :
        AboveThreshold(sims[i], cfg) /\ ~ValidScore(sims[i])

\* what the caller gets when the operation raised
Raised(error) == [ op |-> "raised", error |-> error ]

\* variant of TransformVocabulary: the query is fitted, not only transformed
FitVocabulary(vocab, query) == vocab \cup Terms(query)

\* vectorizer.vocabulary_ after vectorizer.transform([query]): transform
\* looks terms up and adds none
TransformVocabulary(vocab, query) == vocab

\* the test that ends the alternatives loop of match_with_alternatives
EnoughAlternatives(alternatives, cfg) ==
    Len(alternatives) >= cfg.max_suggestions

\* variant of AlreadySeen: the test reads the entry's category, not its id
AlreadySeenWrongKey(match, seen_faq_ids) ==
    match.faq.category \in seen_faq_ids

\* the duplicate test of the alternatives loop: match.faq.id in seen_faq_ids
AlreadySeen(match, seen_faq_ids) == match.faq.id \in seen_faq_ids

\* the alternatives loop of match_with_alternatives
RECURSIVE CollectAlternatives(_, _, _, _)
CollectAlternatives(rest, seen_faq_ids, alternatives, cfg) ==
    IF rest = << >> THEN alternatives
    ELSE LET match == Head(rest)
         IN  IF ~AlreadySeen(match, seen_faq_ids)
             THEN LET added == Append(alternatives, match)
                  IN  IF EnoughAlternatives(added, cfg) THEN added
                      ELSE CollectAlternatives(Tail(rest),
                               seen_faq_ids \cup {match.faq.id}, added, cfg)
             ELSE CollectAlternatives(Tail(rest), seen_faq_ids,
                                      alternatives, cfg)

\* variant of BestAndAlternatives: the best match is taken from the end of
\* the matches
BestAndAlternativesFromEnd(all_matches, cfg) ==
    IF all_matches = << >>
    THEN [ best |-> None, alternatives |-> << >> ]
    ELSE [ best |-> Some(all_matches[Len(all_matches)]),
           alternatives |-> CollectAlternatives(Tail(all_matches),
                                {all_matches[1].faq.id}, << >>, cfg) ]

\* best match and alternatives of match_with_alternatives, from the matches
BestAndAlternatives(all_matches, cfg) ==
    IF all_matches = << >>
    THEN [ best |-> None, alternatives |-> << >> ]
    ELSE [ best |-> Some(all_matches[1]),
           alternatives |-> CollectAlternatives(Tail(all_matches),
                                {all_matches[1].faq.id}, << >>, cfg) ]

\* variant of InCategory: the matches are returned unfiltered
InCategoryUnfiltered(all_matches, category) == all_matches

\* the category filter of get_matches_by_category
InCategory(all_matches, category) ==
    SelectSeq(all_matches, LAMBDA m : m.faq.category = category)

\* the ids asked of find_similar_faqs; "f9" is in no database
FaqIds == { "f1", "f2", "f3", "f9" }

Queries == StringsUpTo({" ", "?", "a", "s", "u", "U"}, MaxQueryLen)

NoTwin == [ built |-> FALSE ]
NoLocals == [ user_query |-> None ]
Threads == 1..NumThreads

NoCall == [ op |-> "none" ]
NoReturn == [ op |-> "none" ]
NoSimilarities == << >>

\* variant of NothingAsked: the early returns taken on the opposite condition
NothingAskedInverted(user_query, preprocessed_query) ==
    ~IsBlank(user_query) /\ preprocessed_query # << >>

\* variant of NothingAsked: the second early return left out
NothingAskedRawOnly(user_query, preprocessed_query) == IsBlank(user_query)

\* the two early returns of match and match_with_alternatives: the query is
\* empty or whitespace, or its preprocessed form is the empty string
NothingAsked(user_query, preprocessed_query) ==
    IsBlank(user_query) \/ preprocessed_query = << >>

\* variant of BuildFails: only the explicit test for no rows
BuildFailsNoRowsOnly(rows, terms) == rows = << >>

\* the two ways _build_corpus raises MatcherError: there are no rows, or
\* fit_transform raises because the rows give an empty vocabulary
BuildFails(rows, terms) == rows = << >> \/ terms = {}

\* QuestionMatcher.__init__ and _build_corpus
Build(db, cfg) ==
    /\ pc = "new"
    /\ db = << >> \/ (ValidDatabase(db) /\ \A k \in 1..Len(db) : ValidFAQ(db[k]))
    /\ LET rows == CorpusRows(db, 1)
           terms == UNION { Terms(rows[i].question) : i \in 1..Len(rows) }
       IN  /\ faq_database' = db
           /\ config' = cfg
           /\ corpus_questions' = [ i \in 1..Len(rows) |-> rows[i].question ]
           /\ corpus_faqs' = [ i \in 1..Len(rows) |-> rows[i].faq ]
           /\ corpus_original_questions' =
                  [ i \in 1..Len(rows) |-> rows[i].original ]
           /\ vocabulary' = terms
           /\ corpus_vectors' = [ i \in 1..Len(rows) |-> Terms(rows[i].question) ]
           /\ pc' = IF BuildFails(rows, terms) THEN "failed" ELSE "idle"
    /\ UNCHANGED << call, ret, vectorized, similarities, steps, adds >>
    /\ UNCHANGED << threadVars, chatVars >>

\* match
Match(user_query) ==
    /\ pc = "idle"
    /\ call' = [ op |-> "match", user_query |-> user_query ]
    /\ LET preprocessed_query == Preprocess(PreprocessorConfig, user_query)
       IN  IF NothingAsked(user_query, preprocessed_query)
           THEN /\ ret' = [ op |-> "match", best |-> None ]
                /\ vectorized' = FALSE
                /\ similarities' = NoSimilarities
                /\ vocabulary' = vocabulary
           ELSE \E sims \in SimilarityRows(preprocessed_query,
                                           corpus_questions) :
                  LET matches == GetAllMatches(sims, config, corpus_faqs,
                                               corpus_original_questions)
                  IN  /\ ret' = IF GetAllMatchesRaises(sims, config)
                                 THEN Raised("ValueError")
                                 ELSE [ op |-> "match",
                                        best |-> IF matches = << >> THEN None
                                                 ELSE Some(matches[1]) ]
                      /\ vectorized' = TRUE
                      /\ similarities' = sims
                      /\ vocabulary' = TransformVocabulary(vocabulary,
                                            preprocessed_query)
    /\ pc' = "returned"
    /\ UNCHANGED << faq_database, config, corpus_questions, corpus_faqs,
                    corpus_original_questions, corpus_vectors, steps, adds >>
    /\ UNCHANGED << threadVars, chatVars >>

\* match_with_alternatives
MatchWithAlternatives(user_query) ==
    /\ pc = "idle"
    /\ call' = [ op |-> "match_with_alternatives", user_query |-> user_query ]
    /\ LET preprocessed_query == Preprocess(PreprocessorConfig, user_query)
       IN  IF NothingAsked(user_query, preprocessed_query)
           THEN /\ ret' = [ op |-> "match_with_alternatives",
                            best |-> None, alternatives |-> << >> ]
                /\ vectorized' = FALSE
                /\ similarities' = NoSimilarities
                /\ vocabulary' = vocabulary
           ELSE \E sims \in SimilarityRows(preprocessed_query,
                                           corpus_questions) :
                  LET all_matches == GetAllMatches(sims, config, corpus_faqs,
                                         corpus_original_questions)
                      result == BestAndAlternatives(all_matches, config)
                  IN  /\ ret' = IF GetAllMatchesRaises(sims, config)
                                 THEN Raised("ValueError")
                                 ELSE [ op |-> "match_with_alternatives",
                                        best |-> result.best,
                                        alternatives |-> result.alternatives ]
                      /\ vectorized' = TRUE
                      /\ similarities' = sims
                      /\ vocabulary' = TransformVocabulary(vocabulary,
                                            preprocessed_query)
    /\ pc' = "returned"
    /\ UNCHANGED << faq_database, config, corpus_questions, corpus_faqs,
                    corpus_original_questions, corpus_vectors, steps, adds >>
    /\ UNCHANGED << threadVars, chatVars >>

\* get_matches_by_category
GetMatchesByCategory(user_query, category) ==
    /\ pc = "idle"
    /\ call' = [ op |-> "get_matches_by_category",
                 user_query |-> user_query, category |-> category ]
    /\ LET preprocessed_query == Preprocess(PreprocessorConfig, user_query)
       IN  IF preprocessed_query = << >>
           THEN /\ ret' = [ op |-> "get_matches_by_category",
                            matches |-> << >> ]
                /\ vectorized' = FALSE
                /\ similarities' = NoSimilarities
                /\ vocabulary' = vocabulary
           ELSE \E sims \in SimilarityRows(preprocessed_query,
                                           corpus_questions) :
                  LET all_matches == GetAllMatches(sims, config, corpus_faqs,
                                         corpus_original_questions)
                  IN  /\ ret' = IF GetAllMatchesRaises(sims, config)
                                 THEN Raised("ValueError")
                                 ELSE [ op |-> "get_matches_by_category",
                                        matches |-> InCategory(all_matches,
                                                               category) ]
                      /\ vectorized' = TRUE
                      /\ similarities' = sims
                      /\ vocabulary' = TransformVocabulary(vocabulary,
                                            preprocessed_query)
    /\ pc' = "returned"
    /\ UNCHANGED << faq_database, config, corpus_questions, corpus_faqs,
                    corpus_original_questions, corpus_vectors, steps, adds >>
    /\ UNCHANGED << threadVars, chatVars >>

\* variant of LowConfidence: a score equal to the threshold is low too
LowConfidenceAtOrBelow(match_result, cfg) ==
    match_result.similarity_score <= cfg.low_confidence_threshold

\* the test of is_low_confidence: the score is below low_confidence_threshold
LowConfidence(match_result, cfg) ==
    match_result.similarity_score < cfg.low_confidence_threshold

\* MatchResult(faq, similarity_score, matched_question) called directly,
\* as the tests do
NewMatchResult(faq, similarity_score, matched_question) ==
    /\ pc = "idle"
    /\ call' = [ op |-> "MatchResult", similarity_score |-> similarity_score ]
    /\ ret' = IF ValidScore(similarity_score)
              THEN [ op |-> "MatchResult",
                     value |-> MatchResult(faq, similarity_score,
                                           matched_question, 0) ]
              ELSE Raised("ValueError")
    /\ pc' = "returned"
    /\ UNCHANGED << faq_database, config, corpus_questions, corpus_faqs,
                    corpus_original_questions, vocabulary, corpus_vectors,
                    vectorized, similarities, steps, adds >>
    /\ UNCHANGED << threadVars, chatVars >>

\* is_low_confidence
IsLowConfidence(match_result) ==
    /\ pc = "idle"
    /\ call' = [ op |-> "is_low_confidence", match_result |-> match_result ]
    /\ ret' = [ op |-> "is_low_confidence",
                value |-> LowConfidence(match_result, config) ]
    /\ pc' = "returned"
    /\ UNCHANGED << faq_database, config, corpus_questions, corpus_faqs,
                    corpus_original_questions, vocabulary, corpus_vectors,
                    vectorized, similarities, steps, adds >>
    /\ UNCHANGED << threadVars, chatVars >>

\* cosine_similarity(corpus_vectors, corpus_vectors): the matrices whose
\* rows from the k-th on are similarity rows of the corpus rows and agree
\* with the rows above them across the diagonal
RECURSIVE SimilarityMatrices(_, _, _)
SimilarityMatrices(rows, k, above) ==
    IF k > Len(rows) THEN { above }
    ELSE UNION { SimilarityMatrices(rows, k + 1, Append(above, r)) :
                   r \in { v \in SimilarityRows(rows[k], rows) :
                             \A j \in 1..(k - 1) : v[j] = above[j][k] } }

\* get_similarity_matrix
GetSimilarityMatrix ==
    /\ pc = "idle"
    /\ call' = [ op |-> "get_similarity_matrix" ]
    /\ \E matrix \in SimilarityMatrices(corpus_questions, 1, << >>) :
           ret' = [ op |-> "get_similarity_matrix", value |-> matrix ]
    /\ pc' = "returned"
    /\ UNCHANGED << faq_database, config, corpus_questions, corpus_faqs,
                    corpus_original_questions, vocabulary, corpus_vectors,
                    vectorized, similarities, steps, adds >>
    /\ UNCHANGED << threadVars, chatVars >>

\* np.argsort(similarities)[::-1]: the row indices (from 1) in an order of
\* descending value; the order among equal values is not specified
ArgsortDescending(sims) ==
    { order \in [1..Len(sims) -> 1..Len(sims)] :
        /\ \A k, l \in 1..Len(sims) : order[k] = order[l] => k = l
        /\ \A k \in 1..(Len(sims) - 1) :
              sims[order[k]] >= sims[order[k + 1]] }

\* the loop of find_similar_faqs over similar_indices: a row whose entry
\* has not been seen gives a result
RECURSIVE CollectSimilar(_, _, _, _)
CollectSimilar(similar_indices, sims, seen_ids, results) ==
    IF similar_indices = << >> THEN results
    ELSE LET idx == Head(similar_indices)
             faq == corpus_faqs[idx]
         IN  IF faq.id \notin seen_ids
             THEN CollectSimilar(Tail(similar_indices), sims,
                      seen_ids \cup {faq.id},
                      Append(results, [ faq |-> faq, score |-> sims[idx] ]))
             ELSE CollectSimilar(Tail(similar_indices), sims, seen_ids,
                                 results)

\* the slice seq[from:to] of Python for 0 <= from, with indices from 0
Slice(seq, from, to) ==
    LET hi == IF to > Len(seq) THEN Len(seq) ELSE to
    IN  IF from >= hi THEN << >> ELSE SubSeq(seq, from + 1, hi)

\* find_similar_faqs
FindSimilarFaqs(faq_id, top_n) ==
    /\ pc = "idle"
    /\ call' = [ op |-> "find_similar_faqs", faq_id |-> faq_id,
                 top_n |-> top_n ]
    /\ LET target_indices == SelectSeq([ i \in 1..Len(corpus_faqs) |-> i ],
                                 LAMBDA i : corpus_faqs[i].id = faq_id)
       IN  IF target_indices = << >>
           THEN /\ ret' = [ op |-> "find_similar_faqs", value |-> << >> ]
                /\ similarities' = NoSimilarities
           ELSE \E sims \in SimilarityRows(
                                 corpus_questions[target_indices[1]],
                                 corpus_questions) :
                  \E order \in ArgsortDescending(sims) :
                    LET similar_indices == Slice(order, 1, top_n + 1)
                        results == CollectSimilar(similar_indices, sims,
                                                  {faq_id}, << >>)
                    IN  /\ ret' = [ op |-> "find_similar_faqs",
                                    value |-> Slice(results, 0, top_n) ]
                        /\ similarities' = sims
    /\ pc' = "returned"
    /\ UNCHANGED << faq_database, config, corpus_questions, corpus_faqs,
                    corpus_original_questions, vocabulary, corpus_vectors,
                    vectorized, steps, adds >>
    /\ UNCHANGED << threadVars, chatVars >>

\* get_corpus_statistics; the average is the pair of the numbers divided
GetCorpusStatistics ==
    /\ pc = "idle"
    /\ call' = [ op |-> "get_corpus_statistics" ]
    /\ ret' = [ op |-> "get_corpus_statistics",
                total_faqs |-> Len(faq_database),
                total_questions |-> Len(corpus_questions),
                avg_questions_per_faq |->
                    << Len(corpus_questions),
                       IF Len(faq_database) > 1 THEN Len(faq_database)
                       ELSE 1 >>,
                vocabulary_size |-> Cardinality(vocabulary),
                max_features |-> max_features ]
    /\ pc' = "returned"
    /\ UNCHANGED << faq_database, config, corpus_questions, corpus_faqs,
                    corpus_original_questions, vocabulary, corpus_vectors,
                    vectorized, similarities, steps, adds >>
    /\ UNCHANGED << threadVars, chatVars >>

\* the caller takes the returned value and is ready for its next call
Return ==
    /\ pc = "returned"
    /\ pc' = "idle"
    /\ call' = NoCall
    /\ ret' = NoReturn
    /\ vectorized' = FALSE
    /\ similarities' = NoSimilarities
    /\ UNCHANGED << faq_database, config, corpus_questions, corpus_faqs,
                    corpus_original_questions, vocabulary, corpus_vectors,
                    steps, adds >>
    /\ UNCHANGED << threadVars, chatVars >>

InitMatcher ==
    /\ pc = "new"
    /\ faq_database = << >>
    /\ config = [ similarity_threshold |-> 0, max_suggestions |-> 0,
                  low_confidence_threshold |-> 0 ]
    /\ corpus_questions = << >>
    /\ corpus_faqs = << >>
    /\ corpus_original_questions = << >>
    /\ vocabulary = {}
    /\ corpus_vectors = << >>
    /\ call = NoCall
    /\ ret = NoReturn
    /\ vectorized = FALSE
    /\ similarities = NoSimilarities
    /\ steps = << >>
    /\ adds = 0
    /\ twin = NoTwin
    /\ tpc = [ t \in Threads |-> "idle" ]
    /\ local = [ t \in Threads |-> NoLocals ]
    /\ cosine = << >>
    /\ cache = << >>
    /\ conversation_history = << >>
    /\ asks = 0

NextMatcher ==
    \/ \E db \in Databases, cfg \in MatcherConfigs : Build(db, cfg)
    \/ \E q \in Queries : Match(q)
    \/ \E q \in Queries : MatchWithAlternatives(q)
    \/ \E q \in Queries, c \in Categories : GetMatchesByCategory(q, c)
    \/ \E i \in 1..Len(corpus_faqs), score \in Scores :
           IsLowConfidence(MatchResult(corpus_faqs[i], score,
                                       corpus_original_questions[i], i))
    \/ \E similarity_score \in (-1)..(Scale + 1) :
           NewMatchResult(corpus_faqs[1], similarity_score,
                          corpus_original_questions[1])
    \/ GetSimilarityMatrix
    \/ \E faq_id \in FaqIds, top_n \in 0..MaxTopN :
           FindSimilarFaqs(faq_id, top_n)
    \/ GetCorpusStatistics
    \/ Return

MatcherSpec == InitMatcher /\ [][NextMatcher]_vars

(***************************************************************************)
(* Threads calling match_with_alternatives on matchers they share.  Each   *)
(* thread runs the statements of the call one at a time on its own local   *)
(* variables; the matchers' attributes are shared.                         *)
(***************************************************************************)
\* the queries the threads ask: two that match rows and one that
\* preprocesses to the empty string
ThreadQueries == { << "s", "u" >>, << "u", "u", "?" >>, << "a" >> }

\* the databases of the matchers the threads share: those of two entries
ThreadDatabases == { db \in Databases : Len(db) = 2 }

\* the configurations of the matchers the threads share
ThreadConfigs ==
    { cfg \in MatcherConfigs :
        /\ cfg.similarity_threshold = 1
        /\ cfg.max_suggestions = MaxSuggestions }

\* the attributes of the m-th matcher: the first one or its twin
Matcher(m) ==
    IF m = 1
    THEN [ built |-> pc = "idle", config |-> config,
           corpus_questions |-> corpus_questions,
           corpus_faqs |-> corpus_faqs,
           corpus_original_questions |-> corpus_original_questions,
           vocabulary |-> vocabulary, corpus_vectors |-> corpus_vectors ]
    ELSE twin

\* a second QuestionMatcher(faq_database, preprocessor, config) from the
\* arguments the first was built from
BuildTwin ==
    /\ pc = "idle"
    /\ twin = NoTwin
    /\ LET rows == CorpusRows(faq_database, 1)
           terms == UNION { Terms(rows[i].question) : i \in 1..Len(rows) }
       IN  twin' = [ built |-> ~BuildFails(rows, terms), config |-> config,
                     corpus_questions |->
                         [ i \in 1..Len(rows) |-> rows[i].question ],
                     corpus_faqs |-> [ i \in 1..Len(rows) |-> rows[i].faq ],
                     corpus_original_questions |->
                         [ i \in 1..Len(rows) |-> rows[i].original ],
                     vocabulary |-> terms,
                     corpus_vectors |->
                         [ i \in 1..Len(rows) |-> Terms(rows[i].question) ] ]
    /\ UNCHANGED << pc, faq_database, config, corpus_questions, corpus_faqs,
                    corpus_original_questions, vocabulary, corpus_vectors,
                    call, ret, vectorized, similarities, steps, adds, tpc,
                    local, cosine, cache, conversation_history, asks >>

\* variant of CosineKey: the value also depends on which matcher asks
CosineKeyPerMatcher(m, rows, query) == << m, query >>

\* what the value of cosine_similarity depends on: the row vectors and the
\* query vector, which are functions of the rows and of the query
CosineKey(m, rows, query) == << rows, query >>

\* variant of OwnSimilarities: the loop reads the row computed last by any
\* call
OwnSimilarities_Shared(own, last) == last

\* the similarities the loop of _get_all_matches enumerates: the local
\* variable of the call
OwnSimilarities(own, last) == own

threadFrame == << pc, faq_database, config, corpus_questions, corpus_faqs,
                 corpus_original_questions, vocabulary, corpus_vectors,
                 call, ret, vectorized, steps, adds, twin, cache,
                 conversation_history, asks >>

\* a thread calls match_with_alternatives(user_query) on the m-th matcher;
\* the first thread stays with the first matcher
ThreadCall(t, m, user_query) ==
    /\ pc = "idle" /\ Matcher(m).built
    /\ m = 1 \/ t > 1
    /\ tpc[t] = "idle"
    /\ local' = [ local EXCEPT ![t] = [ user_query |-> Some(user_query),
                                        matcher |-> m ] ]
    /\ tpc' = [ tpc EXCEPT ![t] = "normalize" ]
    /\ UNCHANGED << similarities, cosine >>
    /\ UNCHANGED threadFrame

\* the blank test and preprocess, with the two early returns
ThreadNormalize(t) ==
    /\ tpc[t] = "normalize"
    /\ LET user_query == local[t].user_query[1]
           preprocessed_query == Preprocess(PreprocessorConfig, user_query)
       IN  IF NothingAsked(user_query, preprocessed_query)
           THEN /\ local' = [ local EXCEPT ![t] =
                                [ local[t] EXCEPT !.user_query = @ ] @@
                                [ result |-> [ best |-> None,
                                               alternatives |-> << >> ] ] ]
                /\ tpc' = [ tpc EXCEPT ![t] = "done" ]
           ELSE /\ local' = [ local EXCEPT ![t] = local[t] @@
                                [ preprocessed_query |-> preprocessed_query ] ]
                /\ tpc' = [ tpc EXCEPT ![t] = "vectorize" ]
    /\ UNCHANGED << similarities, cosine >>
    /\ UNCHANGED threadFrame

\* vectorizer.transform([preprocessed_query]): the terms of the query that
\* are in the vocabulary
ThreadVectorize(t) ==
    /\ tpc[t] = "vectorize"
    /\ local' = [ local EXCEPT ![t] = local[t] @@
                    [ query_vector |->
                          Terms(local[t].preprocessed_query)
                              \cap Matcher(local[t].matcher).vocabulary ] ]
    /\ tpc' = [ tpc EXCEPT ![t] = "score" ]
    /\ UNCHANGED << similarities, cosine >>
    /\ UNCHANGED threadFrame

\* cosine_similarity(query_vector, corpus_vectors)[0]: for arguments it has
\* seen the library returns what it returned before
ThreadScore(t) ==
    /\ tpc[t] = "score"
    /\ LET rows == Matcher(local[t].matcher).corpus_questions
           key == CosineKey(local[t].matcher, rows,
                            local[t].preprocessed_query)
           values == IF key \in DOMAIN cosine THEN { cosine[key] }
                     ELSE SimilarityRows(local[t].preprocessed_query, rows)
       IN  \E sims \in values :
             /\ cosine' = [ k \in DOMAIN cosine \cup { key } |->
                              IF k = key THEN sims ELSE cosine[k] ]
             /\ local' = [ local EXCEPT ![t] = local[t] @@
                             [ similarities |-> sims ] ]
             /\ similarities' = sims
    /\ tpc' = [ tpc EXCEPT ![t] = "filter" ]
    /\ UNCHANGED threadFrame

\* the loop of _get_all_matches; a MatchResult that raises ends the call
ThreadFilter(t) ==
    /\ tpc[t] = "filter"
    /\ LET matcher == Matcher(local[t].matcher)
           sims == OwnSimilarities(local[t].similarities, similarities)
       IN  IF GetAllMatchesRaises(sims, matcher.config)
           THEN /\ local' = [ local EXCEPT ![t] = local[t] @@
                                [ result |-> Raised("ValueError") ] ]
                /\ tpc' = [ tpc EXCEPT ![t] = "done" ]
           ELSE /\ local' = [ local EXCEPT ![t] = local[t] @@
                                [ matches |->
                                      FilterMatches(sims, matcher.config,
                                          matcher.corpus_faqs,
                                          matcher.corpus_original_questions) ] ]
                /\ tpc' = [ tpc EXCEPT ![t] = "sort" ]
    /\ UNCHANGED << similarities, cosine >>
    /\ UNCHANGED threadFrame

\* matches.sort(key=..., reverse=True)
ThreadSort(t) ==
    /\ tpc[t] = "sort"
    /\ local' = [ local EXCEPT ![t] =
                    [ local[t] EXCEPT !.matches = SortDesc(@) ] ]
    /\ tpc' = [ tpc EXCEPT ![t] = "dedup" ]
    /\ UNCHANGED << similarities, cosine >>
    /\ UNCHANGED threadFrame

\* the best match and the alternatives loop
ThreadDedup(t) ==
    /\ tpc[t] = "dedup"
    /\ local' = [ local EXCEPT ![t] = local[t] @@
                    [ result |-> BestAndAlternatives(local[t].matches,
                                     Matcher(local[t].matcher).config) ] ]
    /\ tpc' = [ tpc EXCEPT ![t] = "done" ]
    /\ UNCHANGED << similarities, cosine >>
    /\ UNCHANGED threadFrame

\* the caller takes the result; the locals of the call are gone
ThreadReturn(t) ==
    /\ tpc[t] = "done"
    /\ local' = [ local EXCEPT ![t] = NoLocals ]
    /\ tpc' = [ tpc EXCEPT ![t] = "idle" ]
    /\ UNCHANGED << similarities, cosine >>
    /\ UNCHANGED threadFrame

NextThreads ==
    \/ \E db \in ThreadDatabases, cfg \in ThreadConfigs : Build(db, cfg)
    \/ BuildTwin
    \/ \E t \in Threads, m \in { 1, 2 }, q \in ThreadQueries :
           ThreadCall(t, m, q)
    \/ \E t \in Threads : ThreadNormalize(t)
    \/ \E t \in Threads : ThreadVectorize(t)
    \/ \E t \in Threads : ThreadScore(t)
    \/ \E t \in Threads : ThreadFilter(t)
    \/ \E t \in Threads : ThreadSort(t)
    \/ \E t \in Threads : ThreadDedup(t)
    \/ \E t \in Threads : ThreadReturn(t)

ThreadSpec == InitMatcher /\ [][NextThreads]_vars

(***************************************************************************)
(* Chatbot: ask and the conversation history.  The chatbot owns the        *)
(* matcher; Chatbot.__init__ constructs it and starts with an empty        *)
(* history.  A message text is a record naming the template it was made    *)
(* from and the values put into it.                                        *)
(***************************************************************************)
\* the content of a user message: the query as typed
Text(chars) == [ kind |-> "text", text |-> chars ]

\* "not content or not content.strip()": only a text the user typed can be
\* blank, the templates and the answers of the entries are not
ContentBlank(content) == content.kind = "text" /\ IsBlank(content.text)

\* ChatMessage.__post_init__: the role is known and the content not blank
ValidChatMessage(role, content) ==
    role \in { "user", "assistant" } /\ ~ContentBlank(content)

\* ChatMessage(role, content, match_result)
ChatMessage(role, content, match_result) ==
    [ role |-> role, content |-> content, match_result |-> match_result ]

\* _add_to_history: the history after it, or raised when ChatMessage raises
AddToHistory(history, role, content, match_result) ==
    IF ValidChatMessage(role, content)
    THEN [ raised |-> FALSE,
           history |-> Append(history,
                              ChatMessage(role, content, match_result)) ]
    ELSE [ raised |-> TRUE, history |-> history ]

\* ChatbotResponse(message, match_result, alternatives, is_fallback)
ChatbotResponse(message, match_result, alternatives, is_fallback) ==
    [ message |-> message, match_result |-> match_result,
      alternatives |-> alternatives, is_fallback |-> is_fallback ]

\* _generate_empty_query_response
EmptyQueryResponse ==
    ChatbotResponse([ kind |-> "empty_query" ], None, << >>, TRUE)

\* _generate_no_match_response: the text lists the categories of the entries
NoMatchResponse ==
    ChatbotResponse([ kind |-> "no_match",
                      categories |-> { faq_database[k].category :
                                         k \in 1..Len(faq_database) } ],
                    None, << >>, TRUE)

\* _generate_low_confidence_response: the question and answer of the entry,
\* int(similarity_score * 100) and the questions of up to three alternatives
LowConfidenceResponse(match, alternatives) ==
    ChatbotResponse([ kind |-> "low_confidence", faq |-> match.faq.id,
                      percentage |-> (match.similarity_score * 100) \div Scale,
                      suggested |-> [ k \in 1..Len(Slice(alternatives, 0, 3))
                                        |-> alternatives[k].faq.question ] ],
                    Some(match), alternatives, FALSE)

\* _generate_answer_response: the answer of the entry
AnswerResponse(match, alternatives) ==
    ChatbotResponse([ kind |-> "answer", faq |-> match.faq.id ],
                    Some(match), alternatives, FALSE)

\* the response ask generates from what match_with_alternatives returned
GenerateResponse(best_match, alternatives) ==
    IF best_match = None THEN NoMatchResponse
    ELSE IF LowConfidence(best_match[1], config)
         THEN LowConfidenceResponse(best_match[1], alternatives)
         ELSE AnswerResponse(best_match[1], alternatives)

\* what match_with_alternatives(user_query) does when the similarities of
\* the query to the rows are sims: raises, or returns best and alternatives
MatchedWithAlternatives(user_query, sims) ==
    LET preprocessed_query == Preprocess(PreprocessorConfig, user_query)
    IN  IF NothingAsked(user_query, preprocessed_query)
        THEN [ raised |-> FALSE, best |-> None, alternatives |-> << >> ]
        ELSE IF GetAllMatchesRaises(sims, config)
             THEN [ raised |-> TRUE, best |-> None, alternatives |-> << >> ]
             ELSE [ raised |-> FALSE ] @@
                  BestAndAlternatives(
                      GetAllMatches(sims, config, corpus_faqs,
                                    corpus_original_questions), config)

\* the queries asked of the chatbot
ChatQueries == { << >>, << " " >>, << "s", "u" >>, << "u", "u", "?" >>,
                 << "a" >>, << "s", "s" >> }

\* the configurations of the chatbot's matcher
ChatConfigs ==
    { cfg \in MatcherConfigs :
        /\ cfg.similarity_threshold \in { 1, Scale }
        /\ cfg.max_suggestions = MaxSuggestions }

chatFrame == << faq_database, config, corpus_questions, corpus_faqs,
               corpus_original_questions, vocabulary, corpus_vectors,
               vectorized, steps, adds, twin, tpc, local, cosine, cache >>

\* Chatbot.ask
Ask(user_query) ==
    /\ pc = "idle"
    /\ asks < MaxAsks
    /\ call' = [ op |-> "ask", user_query |-> user_query ]
    /\ asks' = IF IsBlank(user_query) THEN asks ELSE asks + 1
    /\ LET user == AddToHistory(conversation_history, "user",
                                Text(user_query), None)
       IN  IF user.raised
           THEN /\ ret' = Raised("ValueError")
                /\ conversation_history' = user.history
                /\ similarities' = NoSimilarities
           ELSE IF IsBlank(user_query)
           THEN LET response == EmptyQueryResponse
                    assistant == AddToHistory(user.history, "assistant",
                                              response.message, None)
                IN  /\ ret' = IF assistant.raised THEN Raised("ValueError")
                               ELSE [ op |-> "ask", response |-> response,
                                      best_match |-> None ]
                    /\ conversation_history' = assistant.history
                    /\ similarities' = NoSimilarities
           ELSE \E sims \in SimilarityRows(
                                 Preprocess(PreprocessorConfig, user_query),
                                 corpus_questions) :
                  LET matched == MatchedWithAlternatives(user_query, sims)
                      response == GenerateResponse(matched.best,
                                                   matched.alternatives)
                      assistant == AddToHistory(user.history, "assistant",
                                       response.message,
                                       response.match_result)
                  IN  /\ similarities' = sims
                      /\ IF matched.raised
                         THEN /\ ret' = Raised("ValueError")
                              /\ conversation_history' = user.history
                         ELSE /\ ret' = IF assistant.raised
                                        THEN Raised("ValueError")
                                        ELSE [ op |-> "ask",
                                               response |-> response,
                                               best_match |-> matched.best ]
                              /\ conversation_history' = assistant.history
    /\ pc' = "returned"
    /\ UNCHANGED chatFrame

\* get_conversation_history: a copy of the list
GetConversationHistory ==
    /\ pc = "idle"
    /\ call' = [ op |-> "get_conversation_history" ]
    /\ ret' = [ op |-> "get_conversation_history",
                value |-> conversation_history ]
    /\ pc' = "returned"
    /\ UNCHANGED << conversation_history, asks, similarities >>
    /\ UNCHANGED chatFrame

\* clear_history
ClearHistory ==
    /\ pc = "idle"
    /\ call' = [ op |-> "clear_history" ]
    /\ ret' = [ op |-> "clear_history" ]
    /\ conversation_history' = << >>
    /\ asks' = 0
    /\ pc' = "returned"
    /\ UNCHANGED similarities
    /\ UNCHANGED chatFrame

NextChatbot ==
    \/ \E db \in Databases, cfg \in ChatConfigs : Build(db, cfg)
    \/ \E q \in ChatQueries : Ask(q)
    \/ GetConversationHistory
    \/ ClearHistory
    \/ Return

ChatbotSpec == InitMatcher /\ [][NextChatbot]_vars

(***************************************************************************)
(* TextPreprocessor used on its own: preprocess, _clean_text, and          *)
(* preprocess_cached called from several threads.                          *)
(***************************************************************************)
preprocessorFrame == << faq_database, config, corpus_questions, corpus_faqs,
                        corpus_original_questions, vocabulary,
                        corpus_vectors, vectorized, similarities, steps,
                        adds, twin, cosine, conversation_history, asks >>

\* TextPreprocessor.__init__ with the default configuration
NewTextPreprocessor ==
    /\ pc = "new"
    /\ pc' = "ready"
    /\ UNCHANGED << call, ret, tpc, local, cache >>
    /\ UNCHANGED preprocessorFrame

\* preprocess
PreprocessText(text) ==
    /\ pc = "ready"
    /\ call' = [ op |-> "preprocess", text |-> text ]
    /\ ret' = [ op |-> "preprocess",
                value |-> Preprocess(PreprocessorConfig, text) ]
    /\ pc' = "answered"
    /\ UNCHANGED << tpc, local, cache >>
    /\ UNCHANGED preprocessorFrame

\* _clean_text
CleanTextOf(text) ==
    /\ pc = "ready"
    /\ call' = [ op |-> "_clean_text", text |-> text ]
    /\ ret' = [ op |-> "_clean_text",
                value |-> CleanText(PreprocessorConfig, text) ]
    /\ pc' = "answered"
    /\ UNCHANGED << tpc, local, cache >>
    /\ UNCHANGED preprocessorFrame

\* the caller takes the value and is ready for its next call
PreprocessorReturn ==
    /\ pc = "answered"
    /\ call' = NoCall
    /\ ret' = NoReturn
    /\ pc' = "ready"
    /\ UNCHANGED << tpc, local, cache >>
    /\ UNCHANGED preprocessorFrame

NextPreprocessor ==
    \/ NewTextPreprocessor
    \/ \E text \in Queries : PreprocessText(text)
    \/ \E text \in Queries : CleanTextOf(text)
    \/ PreprocessorReturn

PreprocessorSpec == InitMatcher /\ [][NextPreprocessor]_vars

(***************************************************************************)
(* preprocess_cached: functools.lru_cache around preprocess, called from   *)
(* several threads on one preprocessor.  A call looks its text up; on a    *)
(* miss it calls preprocess outside the cache and then stores the result,  *)
(* unless the text was stored in the meantime.                             *)
(***************************************************************************)
\* the texts given to preprocess_cached: more than the cache holds, two of
\* them with the same preprocessed form
CacheTexts == { << "u", "s" >>, << "U", "u" >>, << "u", "u", "?" >>,
                << "s", "?", "s" >>, << " " >> }

\* the index of the entry of the cache for the key, 0 when there is none
CacheIndex(entries, key) ==
    IF \E i \in 1..Len(entries) : entries[i].key = key
    THEN CHOOSE i \in 1..Len(entries) : entries[i].key = key
    ELSE 0

\* variant of CacheStore: the entry is added without making room for it
CacheStoreKeepAll(entries, key, value) ==
    IF CacheIndex(entries, key) # 0 THEN entries
    ELSE Append(entries, [ key |-> key, value |-> value ])

\* what lru_cache does with a computed result: nothing when the key was
\* stored during the computation; otherwise the entry is added as the most
\* recently used one, in the place of the least recently used one when the
\* cache is full
CacheStore(entries, key, value) ==
    IF CacheIndex(entries, key) # 0 THEN entries
    ELSE IF Len(entries) < maxsize
         THEN Append(entries, [ key |-> key, value |-> value ])
         ELSE Append(Tail(entries), [ key |-> key, value |-> value ])

\* preprocess_cached is called
CachedCall(t, text) ==
    /\ pc = "ready"
    /\ tpc[t] = "idle"
    /\ local' = [ local EXCEPT ![t] = [ op |-> "preprocess_cached",
                                        text |-> text ] ]
    /\ tpc' = [ tpc EXCEPT ![t] = "lookup" ]
    /\ UNCHANGED << cache, pc, call, ret >>
    /\ UNCHANGED preprocessorFrame

\* the lookup of the key in the cache; on a hit the entry becomes the most
\* recently used one
CachedLookup(t) ==
    /\ tpc[t] = "lookup"
    /\ LET i == CacheIndex(cache, local[t].text)
       IN  IF i # 0
           THEN /\ cache' = SubSeq(cache, 1, i - 1)
                              \o SubSeq(cache, i + 1, Len(cache))
                              \o << cache[i] >>
                /\ local' = [ local EXCEPT ![t] =
                                [ op |-> "preprocess_cached",
                                  text |-> local[t].text, hit |-> TRUE,
                                  result |-> cache[i].value ] ]
                /\ tpc' = [ tpc EXCEPT ![t] = "done" ]
           ELSE /\ cache' = cache
                /\ local' = local
                /\ tpc' = [ tpc EXCEPT ![t] = "miss" ]
    /\ UNCHANGED << pc, call, ret >>
    /\ UNCHANGED preprocessorFrame

\* the call of preprocess after a miss
CachedCompute(t) ==
    /\ tpc[t] = "miss"
    /\ local' = [ local EXCEPT ![t] =
                    [ op |-> "preprocess_cached", text |-> local[t].text,
                      hit |-> FALSE,
                      result |-> Preprocess(PreprocessorConfig,
                                            local[t].text) ] ]
    /\ tpc' = [ tpc EXCEPT ![t] = "computed" ]
    /\ UNCHANGED << cache, pc, call, ret >>
    /\ UNCHANGED preprocessorFrame

\* the result is stored
CachedStore(t) ==
    /\ tpc[t] = "computed"
    /\ cache' = CacheStore(cache, local[t].text, local[t].result)
    /\ tpc' = [ tpc EXCEPT ![t] = "done" ]
    /\ UNCHANGED << local, pc, call, ret >>
    /\ UNCHANGED preprocessorFrame

\* preprocess_cached returns
CachedReturn(t) ==
    /\ tpc[t] = "done"
    /\ local' = [ local EXCEPT ![t] = NoLocals ]
    /\ tpc' = [ tpc EXCEPT ![t] = "idle" ]
    /\ UNCHANGED << cache, pc, call, ret >>
    /\ UNCHANGED preprocessorFrame

NextCache ==
    \/ NewTextPreprocessor
    \/ \E t \in Threads, text \in CacheTexts : CachedCall(t, text)
    \/ \E t \in Threads : CachedLookup(t)
    \/ \E t \in Threads : CachedCompute(t)
    \/ \E t \in Threads : CachedStore(t)
    \/ \E t \in Threads : CachedReturn(t)

CacheSpec == InitMatcher /\ [][NextCache]_vars

(***************************************************************************)
(* text_utils: the step functions of the pipeline.                         *)
(***************************************************************************)
\* the index of the last character of the run of characters of cs that
\* starts at s[i]
RECURSIVE RunEndIn(_, _, _)
RunEndIn(s, i, cs) ==
    IF i < Len(s) /\ s[i + 1] \in cs THEN RunEndIn(s, i + 1, cs) ELSE i

\* str.strip()
RECURSIVE Strip(_)
Strip(s) ==
    IF s = << >> THEN << >>
    ELSE IF Head(s) \in Whitespace THEN Strip(Tail(s))
    ELSE IF s[Len(s)] \in Whitespace THEN Strip(SubSeq(s, 1, Len(s) - 1))
    ELSE s

\* normalize_whitespace
normalize_whitespace(text) == Join(Split(text))

\* expand_contractions.  Of the contractions of the table only "i'm" can be
\* written with Chars; the pattern matches it between word boundaries.
RECURSIVE ExpandFrom(_, _)
ExpandFrom(s, i) ==
    IF i > Len(s) THEN << >>
    ELSE IF /\ i + 2 <= Len(s)
            /\ SubSeq(s, i, i + 2) = << "i", "'", "m" >>
            /\ (i = 1 \/ s[i - 1] \notin WordChars)
            /\ (i + 2 = Len(s) \/ s[i + 3] \notin WordChars)
         THEN << "i", " ", "a", "m" >> \o ExpandFrom(s, i + 3)
         ELSE << s[i] >> \o ExpandFrom(s, i + 1)

expand_contractions(text) == ExpandFrom(text, 1)

\* re.sub(c + r'\w+', '', s): c followed by a run of word characters
RECURSIVE RemoveTagged(_, _, _)
RemoveTagged(s, c, i) ==
    IF i > Len(s) THEN << >>
    ELSE IF s[i] = c /\ i < Len(s) /\ s[i + 1] \in WordChars
         THEN RemoveTagged(s, c, RunEndIn(s, i + 1, WordChars) + 1)
         ELSE << s[i] >> \o RemoveTagged(s, c, i + 1)

\* re.sub(r'[!?]{2,}', '', s)
RECURSIVE RemoveExcessive(_, _)
RemoveExcessive(s, i) ==
    IF i > Len(s) THEN << >>
    ELSE IF s[i] \in {"!", "?"} /\ i < Len(s) /\ s[i + 1] \in {"!", "?"}
         THEN RemoveExcessive(s, RunEndIn(s, i, {"!", "?"}) + 1)
         ELSE << s[i] >> \o RemoveExcessive(s, i + 1)

\* remove_special_patterns
remove_special_patterns(text) ==
    Strip(RemoveExcessive(
              RemoveTagged(RemoveTagged(text, "#", 1), "@", 1), 1))

\* remove_repeated_chars: a run of more than max_repeats equal characters is
\* cut down to max_repeats of them
RECURSIVE RepeatedFrom(_, _, _)
RepeatedFrom(s, max_repeats, i) ==
    IF i > Len(s) THEN << >>
    ELSE LET last == RunEndIn(s, i, {s[i]})
         IN  IF last - i + 1 > max_repeats
             THEN [ k \in 1..max_repeats |-> s[i] ]
                  \o RepeatedFrom(s, max_repeats, last + 1)
             ELSE << s[i] >> \o RepeatedFrom(s, max_repeats, i + 1)

remove_repeated_chars(text, max_repeats) == RepeatedFrom(text, max_repeats, 1)

\* a caller's step in the manner of the tests' custom_step: str.replace of
\* "s" by "u"
custom_step(text) == [ i \in 1..Len(text) |->
                         IF text[i] = "s" THEN "u" ELSE text[i] ]

(***************************************************************************)
(* PreprocessingPipeline.                                                  *)
(***************************************************************************)
\* PipelineStep
PipelineStep(name, function, enabled) ==
    [ name |-> name, function |-> function, enabled |-> enabled ]

\* step.function(result): the value returned, or raised when the function
\* raises; the tests' failing_step raises for every text
CallFunction(function, text) ==
    CASE function = "normalize_whitespace" ->
             [ raised |-> FALSE, value |-> normalize_whitespace(text) ]
      [] function = "expand_contractions" ->
             [ raised |-> FALSE, value |-> expand_contractions(text) ]
      [] function = "remove_special_patterns" ->
             [ raised |-> FALSE, value |-> remove_special_patterns(text) ]
      [] function = "remove_repeated_chars" ->
             [ raised |-> FALSE, value |-> remove_repeated_chars(text, 2) ]
      [] function = "preprocess" ->
             [ raised |-> FALSE,
               value |-> Preprocess(PreprocessorConfig, text) ]
      [] function = "custom_step" ->
             [ raised |-> FALSE, value |-> custom_step(text) ]
      [] function = "failing_step" ->
             [ raised |-> TRUE, value |-> text ]

\* variant of InitializePipeline: the advanced steps put behind the core step
InitializePipelineCoreFirst(enable_advanced) ==
    << PipelineStep("normalize_whitespace", "normalize_whitespace", TRUE),
       PipelineStep("nltk_preprocessing", "preprocess", TRUE) >>
    \o (IF enable_advanced
        THEN << PipelineStep("expand_contractions", "expand_contractions",
                             TRUE),
                PipelineStep("remove_special_patterns",
                             "remove_special_patterns", TRUE),
                PipelineStep("remove_repeated_chars",
                             "remove_repeated_chars", TRUE) >>
        ELSE << >>)

\* _initialize_pipeline: the advanced steps when enabled, then always the
\* nltk_preprocessing step
InitializePipeline(enable_advanced) ==
    << PipelineStep("normalize_whitespace", "normalize_whitespace", TRUE) >>
    \o (IF enable_advanced
        THEN << PipelineStep("expand_contractions", "expand_contractions",
                             TRUE),
                PipelineStep("remove_special_patterns",
                             "remove_special_patterns", TRUE),
                PipelineStep("remove_repeated_chars",
                             "remove_repeated_chars", TRUE) >>
        ELSE << >>)
    \o << PipelineStep("nltk_preprocessing", "preprocess", TRUE) >>

\* variant of RunStep: no except clause, the step's exception leaves process
RunStepUncaught(step, result) ==
    LET r == CallFunction(step.function, result)
    IN  [ raised |-> r.raised, result |-> r.value ]

\* the try statement in the loop of process, for one enabled step: the text
\* after the step, which is the text before it when the step raised; the
\* except clause lets no Exception out
RunStep(step, result) ==
    LET r == CallFunction(step.function, result)
    IN  IF r.raised THEN [ raised |-> FALSE, result |-> result ]
        ELSE [ raised |-> FALSE, result |-> r.value ]

\* variant of StepEnabled: the enabled flag is not read
StepEnabledAlways(step) == TRUE

\* the test "if step.enabled" in the loop of process
StepEnabled(step) == step.enabled

\* the loop of process from the k-th step on: the text returned and, for
\* each step executed, its place in the list, the text it was given and
\* whether its function raised; an exception that leaves the try statement
\* ends the loop and leaves process
RECURSIVE ProcessFrom(_, _, _, _)
ProcessFrom(steplist, k, result, executed) ==
    IF k > Len(steplist)
    THEN [ raised |-> FALSE, value |-> result, executed |-> executed ]
    ELSE IF StepEnabled(steplist[k])
         THEN LET after == RunStep(steplist[k], result)
                  ran == Append(executed,
                             [ at |-> k, name |-> steplist[k].name,
                               function |-> steplist[k].function,
                               input |-> result,
                               failed |-> CallFunction(steplist[k].function,
                                                       result).raised ])
              IN  IF after.raised
                  THEN [ raised |-> TRUE, value |-> None, executed |-> ran ]
                  ELSE ProcessFrom(steplist, k + 1, after.result, ran)
         ELSE ProcessFrom(steplist, k + 1, result, executed)

\* list.insert(position, step)
ListInsert(list, position, step) ==
    LET n == Len(list)
        p == IF position < 0
             THEN (IF n + position < 0 THEN 0 ELSE n + position)
             ELSE (IF position > n THEN n ELSE position)
    IN  SubSeq(list, 1, p) \o << step >> \o SubSeq(list, p + 1, n)

\* variant of InsertStep: a step of the same name is replaced by the new one
InsertStepDedup(steplist, step, position) ==
    LET others == SelectSeq(steplist, LAMBDA x : x.name # step.name)
    IN  IF position = None THEN Append(others, step)
        ELSE ListInsert(others, position[1], step)

\* the two branches of add_step: append for position None, list.insert
\* otherwise; nothing looks at the names already in the list
InsertStep(steplist, step, position) ==
    IF position = None THEN Append(steplist, step)
    ELSE ListInsert(steplist, position[1], step)

\* variant of FirstNamed: the last step of the name
LastNamed(steplist, name) ==
    IF \E i \in 1..Len(steplist) : steplist[i].name = name
    THEN CHOOSE i \in 1..Len(steplist) :
             /\ steplist[i].name = name
             /\ \A j \in (i + 1)..Len(steplist) : steplist[j].name # name
    ELSE 0

\* the index of the first step with the name, 0 when there is none
FirstNamed(steplist, name) ==
    IF \E i \in 1..Len(steplist) : steplist[i].name = name
    THEN CHOOSE i \in 1..Len(steplist) :
             /\ steplist[i].name = name
             /\ \A j \in 1..(i - 1) : steplist[j].name # name
    ELSE 0

\* the texts given to process
Texts ==
    { << >>, << " ", " " >>, << "a", "s" >>, << "?", "?" >>,
      << "U", "s", " ", " ", "s", "u" >>, << "i", "'", "m", " ", "u", "u" >>,
      << "@", "a", " ", "s", "u" >>, << "s", "u", "u", "u" >>,
      << "#", "u", "u" >> }

StepNames == { "normalize_whitespace", "expand_contractions",
               "remove_special_patterns", "remove_repeated_chars",
               "nltk_preprocessing", "custom_replace", "failing_step" }

\* the steps callers add: a name and a function
AddedSteps == { << "custom_replace", "custom_step" >>,
                << "failing_step", "failing_step" >>,
                << "nltk_preprocessing", "custom_step" >> }

\* position: None (append) or an index for list.insert
Positions == { None } \cup { Some(p) : p \in { 0, 1, -1 } }

pipelineFrame == << faq_database, config, corpus_questions, corpus_faqs,
                    corpus_original_questions, vocabulary, corpus_vectors,
                    vectorized, similarities, twin, tpc, local, cosine,
                    cache, conversation_history, asks >>

\* PreprocessingPipeline.__init__
NewPipeline(enable_advanced) ==
    /\ pc = "new"
    /\ steps' = InitializePipeline(enable_advanced)
    /\ pc' = "idle"
    /\ UNCHANGED << call, ret, adds >>
    /\ UNCHANGED pipelineFrame

\* process
Process(text) ==
    /\ pc = "idle"
    /\ call' = [ op |-> "process", text |-> text ]
    /\ LET r == ProcessFrom(steps, 1, text, << >>)
       IN  ret' = [ op |-> "process", raised |-> r.raised,
                    value |-> r.value, executed |-> r.executed ]
    /\ pc' = "returned"
    /\ UNCHANGED << steps, adds >>
    /\ UNCHANGED pipelineFrame

\* add_step
AddStep(name, function, position) ==
    /\ pc = "idle"
    /\ adds < MaxAdds
    /\ call' = [ op |-> "add_step", name |-> name, function |-> function,
                 position |-> position ]
    /\ LET step == PipelineStep(name, function, TRUE)
       IN  steps' = InsertStep(steps, step, position)
    /\ ret' = [ op |-> "add_step" ]
    /\ adds' = adds + 1
    /\ pc' = "returned"
    /\ UNCHANGED pipelineFrame

\* remove_step
RemoveStep(name) ==
    /\ pc = "idle"
    /\ call' = [ op |-> "remove_step", name |-> name ]
    /\ LET i == FirstNamed(steps, name)
       IN  IF i # 0
           THEN /\ steps' = SubSeq(steps, 1, i - 1)
                            \o SubSeq(steps, i + 1, Len(steps))
                /\ ret' = [ op |-> "remove_step", value |-> TRUE ]
           ELSE /\ steps' = steps
                /\ ret' = [ op |-> "remove_step", value |-> FALSE ]
    /\ pc' = "returned"
    /\ UNCHANGED adds
    /\ UNCHANGED pipelineFrame

\* enable_step (enabled = TRUE) and disable_step (enabled = FALSE)
SetEnabled(op, name, enabled) ==
    /\ pc = "idle"
    /\ call' = [ op |-> op, name |-> name ]
    /\ LET i == FirstNamed(steps, name)
       IN  IF i # 0
           THEN /\ steps' = [ steps EXCEPT ![i].enabled = enabled ]
                /\ ret' = [ op |-> op, value |-> TRUE ]
           ELSE /\ steps' = steps
                /\ ret' = [ op |-> op, value |-> FALSE ]
    /\ pc' = "returned"
    /\ UNCHANGED adds
    /\ UNCHANGED pipelineFrame

EnableStep(name) == SetEnabled("enable_step", name, TRUE)

DisableStep(name) == SetEnabled("disable_step", name, FALSE)

NextPipeline ==
    \/ \E enable_advanced \in BOOLEAN : NewPipeline(enable_advanced)
    \/ \E text \in Texts : Process(text)
    \/ \E a \in AddedSteps, position \in Positions :
           AddStep(a[1], a[2], position)
    \/ \E name \in StepNames : RemoveStep(name)
    \/ \E name \in StepNames : EnableStep(name)
    \/ \E name \in StepNames : DisableStep(name)
    \/ Return

PipelineSpec == InitMatcher /\ [][NextPipeline]_vars

Init == InitMatcher

Next ==
    \/ NextMatcher \/ NextThreads \/ NextChatbot \/ NextPipeline
    \/ NextPreprocessor \/ NextCache

Spec == Init /\ [][Next]_vars

(***************************************************************************)
(* Properties of the retrieval engine.                                     *)
(***************************************************************************)
MatcherOps == { "match", "match_with_alternatives", "get_matches_by_category" }

\* the candidates the last call returned, in the order returned
Candidates ==
    CASE ret.op = "match" -> ret.best
      [] ret.op = "match_with_alternatives" -> ret.best \o ret.alternatives
      [] ret.op = "get_matches_by_category" -> ret.matches
      [] OTHER -> << >>

\* the rows of the corpus that score at or above the threshold t
RowsAbove(t) == { i \in 1..Len(similarities) : similarities[i] >= t }

\* C1: the best match and the alternatives that match_with_alternatives
\* returns never hold two candidates with the same FAQ id.
C1_NoDuplicateEntry ==
    ret.op = "match_with_alternatives" =>
        \A i, j \in 1..Len(Candidates) :
            Candidates[i].faq.id = Candidates[j].faq.id => i = j

\* C1 witness: alternatives were returned although two rows of one entry
\* were among the matches.
C1_Witness ==
    /\ ret.op = "match_with_alternatives"
    /\ ret.alternatives # << >>
    /\ \E i, j \in RowsAbove(config.similarity_threshold) :
           i # j /\ corpus_faqs[i].id = corpus_faqs[j].id

\* C2: match and match_with_alternatives return the empty result (None,
\* and None with no alternatives) for an empty or whitespace-only query.
C2_EmptyQueryEmptyResult ==
    (ret.op \in { "match", "match_with_alternatives" }
         /\ IsBlank(call.user_query)) =>
        /\ ret.best = None
        /\ ret.op = "match_with_alternatives" => ret.alternatives = << >>

\* C2 witness: both an empty and a whitespace-only query were answered; here
\* the whitespace-only one, by match_with_alternatives on a matcher whose
\* threshold lets every row through.
C2_Witness ==
    /\ ret.op = "match_with_alternatives"
    /\ call.user_query = << " ", " " >>
    /\ config.similarity_threshold = 0
    /\ ret.best = None

\* C3: every candidate that match, match_with_alternatives or
\* get_matches_by_category returns carries the score of its corpus row, and
\* that score is at or above similarity_threshold.
C3_ScoreAtLeastThreshold ==
    ret.op \in MatcherOps =>
        \A k \in 1..Len(Candidates) :
            /\ Candidates[k].similarity_score = similarities[Candidates[k].idx]
            /\ Candidates[k].similarity_score >= config.similarity_threshold

\* C3 witness: a candidate was returned while another row with a positive
\* score stayed below the threshold.
C3_Witness ==
    /\ ret.op \in MatcherOps
    /\ Candidates # << >>
    /\ \E i \in 1..Len(similarities) :
           similarities[i] > 0 /\ similarities[i] < config.similarity_threshold

\* C4: the matches are in descending score order and rows with equal scores
\* keep their corpus order; the best match is the first corpus row among
\* those with the top score.
C4_StableDescendingOrder ==
    /\ ret.op = "get_matches_by_category" =>
           \A i, j \in 1..Len(ret.matches) :
               i < j =>
                   \/ ret.matches[i].similarity_score
                          > ret.matches[j].similarity_score
                   \/ /\ ret.matches[i].similarity_score
                             = ret.matches[j].similarity_score
                      /\ ret.matches[i].idx < ret.matches[j].idx
    /\ (ret.op \in { "match", "match_with_alternatives" }
            /\ ret.best # None) =>
           \A r \in RowsAbove(config.similarity_threshold) :
               \/ similarities[r] < ret.best[1].similarity_score
               \/ /\ similarities[r] = ret.best[1].similarity_score
                  /\ ret.best[1].idx <= r

\* C4 witness: rows of two different entries tie for the top score and the
\* best match is the one of the earlier row.
C4_Witness ==
    /\ ret.op = "match_with_alternatives"
    /\ ret.best # None
    /\ \E r \in RowsAbove(config.similarity_threshold) :
           /\ similarities[r] = ret.best[1].similarity_score
           /\ corpus_faqs[r].id # ret.best[1].faq.id
           /\ ret.best[1].idx < r

\* C5: for match_with_alternatives the best match is the highest scoring
\* row at or above the threshold (and there is one whenever a row reaches
\* the threshold), every alternative scores as high as any row of its own
\* entry, and the alternatives are in descending score order.
C5_BestAndAlternatives ==
    (ret.op = "match_with_alternatives" /\ vectorized) =>
        /\ ret.best = None <=> RowsAbove(config.similarity_threshold) = {}
        /\ ret.best # None =>
               \A r \in 1..Len(similarities) :
                   similarities[r] <= ret.best[1].similarity_score
        /\ \A k \in 1..Len(ret.alternatives) :
               \A r \in 1..Len(similarities) :
                   corpus_faqs[r].id = ret.alternatives[k].faq.id =>
                       similarities[r] <= ret.alternatives[k].similarity_score
        /\ \A k \in 1..(Len(ret.alternatives) - 1) :
               ret.alternatives[k].similarity_score
                   >= ret.alternatives[k + 1].similarity_score

\* C5 witness: two alternatives with different scores, one of them from an
\* entry that has a lower scoring second row among the matches.
C5_Witness ==
    /\ ret.op = "match_with_alternatives"
    /\ Len(ret.alternatives) = 2
    /\ ret.alternatives[1].similarity_score
           > ret.alternatives[2].similarity_score
    /\ \E k \in 1..2 :
           \E r \in RowsAbove(config.similarity_threshold) :
               /\ corpus_faqs[r].id = ret.alternatives[k].faq.id
               /\ similarities[r] < ret.alternatives[k].similarity_score

\* C6: match_with_alternatives returns at most max_suggestions alternatives,
\* for every max_suggestions including 0.
C6_AtMostMaxSuggestions ==
    ret.op = "match_with_alternatives" =>
        Len(ret.alternatives) <= config.max_suggestions

\* the alternatives match_with_alternatives returns for the similarities of
\* the last call when the threshold is t and the rest of the index and of
\* the configuration is as it is
AlternativesAt(t) ==
    LET cfg == [ config EXCEPT !.similarity_threshold = t ]
    IN  BestAndAlternatives(
            GetAllMatches(similarities, cfg, corpus_faqs,
                          corpus_original_questions), cfg).alternatives

\* C7: for the same corpus, query and max_suggestions, a higher threshold
\* never gives more alternatives: against the alternatives returned under
\* the configured threshold, every higher threshold gives at most as many
\* and every lower one at least as many.
C7_ThresholdMonotone ==
    (ret.op = "match_with_alternatives" /\ vectorized) =>
        /\ AlternativesAt(config.similarity_threshold) = ret.alternatives
        /\ \A t \in Scores :
               /\ t >= config.similarity_threshold =>
                      Len(AlternativesAt(t)) <= Len(ret.alternatives)
               /\ t <= config.similarity_threshold =>
                      Len(AlternativesAt(t)) >= Len(ret.alternatives)

\* C7 witness: alternatives were returned and a higher threshold gives
\* strictly fewer.
C7_Witness ==
    /\ ret.op = "match_with_alternatives"
    /\ ret.alternatives # << >>
    /\ \E t \in Scores :
           /\ t > config.similarity_threshold
           /\ Len(AlternativesAt(t)) < Len(ret.alternatives)

\* C8: a query that is not blank but preprocesses to the empty string gets
\* the empty result from match, match_with_alternatives and
\* get_matches_by_category, and the query is not vectorized.
C8_EmptyAfterPreprocessing ==
    (ret.op \in MatcherOps
         /\ ~IsBlank(call.user_query)
         /\ Preprocess(PreprocessorConfig, call.user_query) = << >>) =>
        /\ Candidates = << >>
        /\ ret.op # "get_matches_by_category" => ret.best = None
        /\ ~vectorized

\* C8 witness: a stop word with punctuation, asked of a matcher whose
\* threshold lets every row through.
C8_Witness ==
    /\ ret.op = "match"
    /\ call.user_query = << "a", "s", "?" >>
    /\ config.similarity_threshold = 0
    /\ ret.best = None
    /\ ~vectorized

\* C13: when the corpus built has no rows, or every row preprocessed to the
\* empty string, construction ended with MatcherError: there is no matcher,
\* and no operation was called on one.
C13_EmptyCorpusFails ==
    (pc # "new"
         /\ \A i \in 1..Len(corpus_questions) : corpus_questions[i] = << >>) =>
        /\ pc = "failed"
        /\ call = NoCall
        /\ ret = NoReturn

\* C13 witness: construction failed on a database whose two rows both
\* preprocess to the empty string.
C13_Witness ==
    /\ pc = "failed"
    /\ Len(corpus_questions) = 2
    /\ \A i \in 1..2 : corpus_questions[i] = << >>
    /\ \A i \in 1..2 : corpus_original_questions[i] # << >>

\* the index of the matcher
index == << faq_database, corpus_questions, corpus_faqs,
            corpus_original_questions, vocabulary, corpus_vectors >>

\* the operations that read the index
ReadOps == MatcherOps \cup { "is_low_confidence", "get_similarity_matrix",
                             "find_similar_faqs", "get_corpus_statistics" }

\* C14: once the matcher is built, no call of match,
\* match_with_alternatives, get_matches_by_category, is_low_confidence,
\* get_similarity_matrix, find_similar_faqs or get_corpus_statistics
\* changes the entries, the corpus rows, the row-to-entry mapping, the
\* vocabulary or the row vectors; and these are what the build computes
\* from the entries.
C14_IndexReadOnly ==
    [][ pc # "new" =>
            /\ index' = index
            /\ vocabulary' = UNION { Terms(corpus_questions[i]) :
                                       i \in 1..Len(corpus_questions) }
            /\ corpus_vectors' = [ i \in 1..Len(corpus_questions) |->
                                       Terms(corpus_questions[i]) ]
      ]_vars

\* C14 witness: a query with a term that is not in the vocabulary and one
\* that is was vectorized and matched, and the vocabulary is that of the
\* corpus rows.
C14_Witness ==
    /\ call.op = "match_with_alternatives"
    /\ ret.op = "match_with_alternatives"
    /\ ret.best # None
    /\ Terms(Preprocess(PreprocessorConfig, call.user_query)) \ vocabulary
           # {}
    /\ vocabulary = UNION { Terms(corpus_questions[i]) :
                              i \in 1..Len(corpus_questions) }

\* C20: no candidate that match, match_with_alternatives or
\* get_matches_by_category returns has a score outside [0,1]; MatchResult
\* called with a score outside [0,1] raises ValueError and with one inside
\* gives a result with that score; and an operation of the matcher raises
\* exactly when a row that passes the threshold test has a value outside
\* [0,1], so it returns no candidate then.
C20_ScoreInUnitInterval ==
    /\ \A k \in 1..Len(Candidates) :
           Candidates[k].similarity_score \in Scores
    /\ call.op = "MatchResult" =>
           IF call.similarity_score \in Scores
           THEN /\ ret.op = "MatchResult"
                /\ ret.value.similarity_score = call.similarity_score
           ELSE ret = Raised("ValueError")
    /\ (call.op \in MatcherOps /\ vectorized) =>
           (ret = Raised("ValueError") <=>
               \E i \in RowsAbove(config.similarity_threshold) :
                   similarities[i] \notin Scores)

\* C20 witness: cosine_similarity gave a value just above 1.0 for a row of
\* the query's own text, and match raised.
C20_Witness ==
    /\ call.op = "match"
    /\ ret = Raised("ValueError")
    /\ \E i \in 1..Len(similarities) :
           /\ similarities[i] = Scale + 1
           /\ corpus_questions[i]
                  = Preprocess(PreprocessorConfig, call.user_query)

\* C21: get_matches_by_category returns exactly the rows of the threshold-
\* filtered, score-descending match list whose entry has the given category,
\* each once and in the order of that list; every candidate returned has
\* that category.
C21_CategoryFilter ==
    ret.op = "get_matches_by_category" =>
        LET RowsInCategory ==
                { i \in RowsAbove(config.similarity_threshold) :
                      corpus_faqs[i].category = call.category }
        IN
        IF vectorized
        THEN /\ { ret.matches[k].idx : k \in 1..Len(ret.matches) }
                    = RowsInCategory
             /\ Len(ret.matches) = Cardinality(RowsInCategory)
             /\ \A k \in 1..Len(ret.matches) :
                    LET m == ret.matches[k]
                    IN  /\ m.faq = corpus_faqs[m.idx]
                        /\ m.faq.category = call.category
                        /\ m.similarity_score = similarities[m.idx]
                        /\ m.matched_question
                               = corpus_original_questions[m.idx]
             /\ \A i, j \in 1..Len(ret.matches) :
                    i < j =>
                        \/ ret.matches[i].similarity_score
                               > ret.matches[j].similarity_score
                        \/ /\ ret.matches[i].similarity_score
                                  = ret.matches[j].similarity_score
                           /\ ret.matches[i].idx < ret.matches[j].idx
        ELSE ret.matches = << >>

\* C21 witness: candidates of the category were returned while a row of
\* another category was among the matches and was left out.
C21_Witness ==
    /\ ret.op = "get_matches_by_category"
    /\ ret.matches # << >>
    /\ \E i \in RowsAbove(config.similarity_threshold) :
           corpus_faqs[i].category # call.category

\* C22: no list of candidates the retrieval engine returns (the best match
\* with the alternatives, the matches of get_matches_by_category, the
\* entries of find_similar_faqs) holds two candidates of the same FAQ entry.
C22_NoDuplicateInAnyList ==
    /\ ret.op \in MatcherOps =>
           \A i, j \in 1..Len(Candidates) :
               Candidates[i].faq.id = Candidates[j].faq.id => i = j
    /\ ret.op = "find_similar_faqs" =>
           \A i, j \in 1..Len(ret.value) :
               ret.value[i].faq.id = ret.value[j].faq.id => i = j

\* C26: after building, corpus_questions, corpus_faqs and
\* corpus_original_questions have one row per question of every entry (1 +
\* the number of alternates each); the rows follow entry order, the
\* canonical question first and then the alternates in order, and row i
\* holds the entry, the original string and the preprocessed form of the
\* question it was made from.
C26_CorpusParallelArrays ==
    pc \in { "idle", "returned" } =>
        LET RowsBefore[k \in 0..Len(faq_database)] ==
                IF k = 0 THEN 0
                ELSE RowsBefore[k - 1] + 1
                         + Len(faq_database[k].alternate_questions)
        IN
        /\ Len(corpus_questions) = RowsBefore[Len(faq_database)]
        /\ Len(corpus_faqs) = Len(corpus_questions)
        /\ Len(corpus_original_questions) = Len(corpus_questions)
        /\ \A k \in 1..Len(faq_database) :
               LET faq == faq_database[k]
                   first == RowsBefore[k - 1] + 1
               IN  /\ corpus_original_questions[first] = faq.question
                   /\ \A a \in 1..Len(faq.alternate_questions) :
                          corpus_original_questions[first + a]
                              = faq.alternate_questions[a]
                   /\ \A i \in first..(first + Len(faq.alternate_questions)) :
                          /\ corpus_faqs[i] = faq
                          /\ corpus_questions[i]
                                 = Preprocess(PreprocessorConfig,
                                              corpus_original_questions[i])

\* C26 witness: a matcher was built from a database whose first entry has an
\* alternate question and is followed by another entry.
C26_Witness ==
    /\ pc = "idle"
    /\ Len(faq_database) >= 2
    /\ faq_database[1].alternate_questions # << >>
    /\ faq_database[2].alternate_questions # << >>
    /\ Len(corpus_questions) = 4

\* C27: find_similar_faqs returns [] for an unknown id and otherwise at most
\* top_n entries in descending similarity, none of them the given entry and
\* none of them twice, and it leaves out no other entry that is more similar
\* to the given one than an entry it returns.  The similarity of an entry is
\* the highest similarity of its rows to the target row.
C27_MostSimilarOthers ==
    ret.op = "find_similar_faqs" =>
        LET known == \E i \in 1..Len(corpus_faqs) :
                         corpus_faqs[i].id = call.faq_id
            returned == { ret.value[k].faq.id : k \in 1..Len(ret.value) }
            others == { corpus_faqs[i].id : i \in 1..Len(corpus_faqs) }
                          \ ({ call.faq_id } \cup returned)
        IN  /\ ~known => ret.value = << >>
            /\ Len(ret.value) <= call.top_n
            /\ call.faq_id \notin returned
            /\ \A i, j \in 1..Len(ret.value) :
                   ret.value[i].faq.id = ret.value[j].faq.id => i = j
            /\ \A k \in 1..(Len(ret.value) - 1) :
                   ret.value[k].score >= ret.value[k + 1].score
            /\ \A k \in 1..Len(ret.value) :
                   \A r \in 1..Len(similarities) :
                       corpus_faqs[r].id \in others =>
                           similarities[r] <= ret.value[k].score

\* what match returns for a query, given the similarities of the query to
\* the rows
Matched(user_query, sims) ==
    LET preprocessed_query == Preprocess(PreprocessorConfig, user_query)
        matches == GetAllMatches(sims, config, corpus_faqs,
                                 corpus_original_questions)
    IN  IF NothingAsked(user_query, preprocessed_query)
        THEN [ raised |-> FALSE, best |-> None ]
        ELSE IF GetAllMatchesRaises(sims, config)
             THEN [ raised |-> TRUE, best |-> None ]
             ELSE [ raised |-> FALSE,
                    best |-> IF matches = << >> THEN None
                             ELSE Some(matches[1]) ]

\* C30: for the same matcher and query, match returns what
\* match_with_alternatives returns as its first component: None together,
\* or the same entry with the same score and matched question (and the one
\* raises when the other does).
C30_MatchIsFirstComponent ==
    /\ (pc = "returned" /\ call.op = "match") =>
           LET both == MatchedWithAlternatives(call.user_query, similarities)
           IN  IF both.raised THEN ret = Raised("ValueError")
               ELSE ret.op = "match" /\ ret.best = both.best
    /\ (pc = "returned" /\ call.op = "match_with_alternatives") =>
           LET one == Matched(call.user_query, similarities)
           IN  IF one.raised THEN ret = Raised("ValueError")
               ELSE ret.op = "match_with_alternatives"
                    /\ ret.best = one.best

\* C30 witness: match returned a best match for a query for which
\* match_with_alternatives has an alternative as well, two rows tying for
\* the top score.
C30_Witness ==
    /\ ret.op = "match"
    /\ ret.best # None
    /\ MatchedWithAlternatives(call.user_query, similarities).alternatives
           # << >>
    /\ \E r \in RowsAbove(config.similarity_threshold) :
           /\ r # ret.best[1].idx
           /\ similarities[r] = ret.best[1].similarity_score

\* two strings that differ only in letter case and in leading, trailing or
\* repeated whitespace: the same words, letter by letter
SameUpToCaseAndSpace(s1, s2) ==
    LET w1 == Split(s1)
        w2 == Split(s2)
        SameLetter(c, d) == c = d \/ { c, d } = { "u", "U" }
    IN  /\ Len(w1) = Len(w2)
        /\ \A k \in 1..Len(w1) :
               /\ Len(w1[k]) = Len(w2[k])
               /\ \A i \in 1..Len(w1[k]) : SameLetter(w1[k][i], w2[k][i])

C17_EmptyQueryFallback ==
    (call.op = "ask" /\ IsBlank(call.user_query)) =>
        /\ ret.op = "ask"
        /\ ret.response.is_fallback
        /\ ret.response.match_result = None

\* C18: the conversation history holds two messages for every ask made
\* with a query that is not blank since the history was last cleared, a
\* user message followed by an assistant message each time, and it is
\* empty right after clear_history.
C18_TwoMessagesPerAsk ==
    /\ Len(conversation_history) = 2 * asks
    /\ \A k \in 1..Len(conversation_history) :
           conversation_history[k].role =
               IF k % 2 = 1 THEN "user" ELSE "assistant"
    /\ ret.op = "clear_history" => conversation_history = << >>

\* the best match and the alternatives the matcher returns for the
\* similarities of the last call
MatcherAnswer ==
    BestAndAlternatives(GetAllMatches(similarities, config, corpus_faqs,
                                      corpus_original_questions), config)

\* C19: when the matcher returned a best match, the response of ask has
\* that match and the matcher's alternatives and is not a fallback, low
\* confidence or not; the low confidence text is used exactly when the
\* score is below low_confidence_threshold and the plain answer otherwise,
\* and the assistant message in the history carries the match.
C19_LowConfidenceOnlyFormats ==
    (ret.op = "ask" /\ ret.best_match # None) =>
        /\ ret.best_match = MatcherAnswer.best
        /\ ret.response.match_result = ret.best_match
        /\ ret.response.alternatives = MatcherAnswer.alternatives
        /\ ~ret.response.is_fallback
        /\ ret.response.message.kind =
               IF ret.best_match[1].similarity_score
                      < config.low_confidence_threshold
               THEN "low_confidence" ELSE "answer"
        /\ conversation_history[Len(conversation_history)].match_result
               = ret.best_match

\* C19 witness: ask answered with a best match whose score is below
\* low_confidence_threshold, and with an alternative.
C19_Witness ==
    /\ ret.op = "ask"
    /\ ret.best_match # None
    /\ ret.best_match[1].similarity_score < config.low_confidence_threshold
    /\ ret.response.match_result = ret.best_match
    /\ ret.response.alternatives # << >>
    /\ ~ret.response.is_fallback

\* what match_with_alternatives(user_query) returns on the m-th matcher
\* when the call runs from its first statement to its last with no other
\* call in between, for the values cosine_similarity has for its arguments
AloneResult(m, user_query) ==
    LET matcher == Matcher(m)
        preprocessed_query == Preprocess(PreprocessorConfig, user_query)
    IN  IF NothingAsked(user_query, preprocessed_query)
        THEN [ best |-> None, alternatives |-> << >> ]
        ELSE LET sims == cosine[CosineKey(m, matcher.corpus_questions,
                                          preprocessed_query)]
             IN  IF GetAllMatchesRaises(sims, matcher.config)
                 THEN Raised("ValueError")
                 ELSE BestAndAlternatives(
                          GetAllMatches(sims, matcher.config,
                              matcher.corpus_faqs,
                              matcher.corpus_original_questions),
                          matcher.config)

\* C15: whatever the interleaving of the statements of the calls that
\* threads make on matchers they share, a call that has finished has the
\* result the same call has when it runs alone.
C15_ConcurrentCallsIsolated ==
    \A t \in Threads :
        tpc[t] = "done" =>
            local[t].result = AloneResult(local[t].matcher,
                                          local[t].user_query[1])

\* C15 witness: two calls on the same matcher with different queries have
\* both finished with a best match, so each ran while the other was under
\* way, and the row scored last is not the row of the first thread.
C15_Witness ==
    /\ tpc[1] = "done" /\ tpc[2] = "done"
    /\ local[1].matcher = 1 /\ local[2].matcher = 1
    /\ local[1].user_query # local[2].user_query
    /\ \A t \in { 1, 2 } :
           /\ "best" \in DOMAIN local[t].result
           /\ local[t].result.best # None
    /\ similarities # local[1].similarities

NormalizerLast(steplist) ==
    /\ steplist # << >>
    /\ steplist[Len(steplist)] =
           PipelineStep("nltk_preprocessing", "preprocess", TRUE)

\* the calls that put a step behind the last one or take the
\* nltk_preprocessing step out of the run
BreaksTerminal(c, steplist) ==
    \/ /\ c.op = "add_step"
       /\ (c.position = None \/ c.position[1] >= Len(steplist))
    \/ /\ c.op \in { "remove_step", "disable_step" }
       /\ c.name = "nltk_preprocessing"

EnabledIndices(steplist) ==
    SelectSeq([ i \in 1..Len(steplist) |-> i ],
              LAMBDA i : steplist[i].enabled)

\* the text an executed step hands on: what its function returned, or the
\* text it was given when the function raised
HandedOn(e) ==
    IF e.failed THEN e.input ELSE CallFunction(e.function, e.input).value

\* C11: process executes exactly the enabled steps, each once, in list
\* order; the first is given the text of the call, each later one what the
\* enabled step before it handed on, and the value returned is what the last
\* one handed on.  A disabled step is not executed; a successful
\* enable_step makes the first step of that name an executed one again, a
\* successful disable_step takes it out.
C11_EnabledStepsInOrder ==
    [][ /\ ret'.op = "process" =>
               LET ex  == ret'.executed
                   idx == EnabledIndices(steps')
               IN  /\ Len(ex) = Len(idx)
                   /\ \A k \in 1..Len(ex) :
                          /\ ex[k].at = idx[k]
                          /\ ex[k].function = steps'[idx[k]].function
                          /\ ex[k].input = IF k = 1 THEN call'.text
                                           ELSE HandedOn(ex[k - 1])
                   /\ ret'.value = IF ex = << >> THEN call'.text
                                   ELSE HandedOn(ex[Len(ex)])
        /\ (call'.op \in { "enable_step", "disable_step" }
                /\ ret'.value = TRUE) =>
               LET i == FirstNamed(steps, call'.name)
               IN  /\ i # 0
                   /\ steps'[i].enabled = (call'.op = "enable_step")
                   /\ \A j \in 1..Len(steps) :
                          j # i => steps'[j] = steps[j]
      ]_vars

\* C11 witness: process ran a list in which a disabled step stands between
\* two enabled ones, and the step behind the gap was given what the step in
\* front of it returned, which is not the text of the call.
C11_Witness ==
    /\ ret.op = "process"
    /\ \E k \in 1..(Len(ret.executed) - 1) :
           /\ ret.executed[k + 1].at > ret.executed[k].at + 1
           /\ ret.executed[k + 1].input # call.text
           /\ ret.executed[k + 1].input # ret.value

C28_FirstNamedOnly ==
    [][ call'.op \in { "remove_step", "enable_step", "disable_step" } =>
          LET named == { i \in 1..Len(steps) : steps[i].name = call'.name }
          IN  /\ ret'.value = (named # {})
              /\ named = {} => steps' = steps
              /\ named # {} =>
                   LET first == CHOOSE i \in named : \A j \in named : i <= j
                   IN  IF call'.op = "remove_step"
                       THEN /\ Len(steps') = Len(steps) - 1
                            /\ \A j \in 1..Len(steps') :
                                   steps'[j] = IF j < first THEN steps[j]
                                               ELSE steps[j + 1]
                       ELSE /\ Len(steps') = Len(steps)
                            /\ \A j \in 1..Len(steps) :
                                   /\ steps'[j].name = steps[j].name
                                   /\ steps'[j].function = steps[j].function
                                   /\ steps'[j].enabled =
                                          IF j # first THEN steps[j].enabled
                                          ELSE call'.op = "enable_step"
      ]_vars

\* C28 witness: disable_step returned True for a name two steps have; the
\* first of them is disabled and the second still enabled.
C28_Witness ==
    /\ ret.op = "disable_step"
    /\ ret.value
    /\ \E i, j \in 1..Len(steps) :
           /\ i < j
           /\ steps[i].name = call.name
           /\ steps[j].name = call.name
           /\ ~steps[i].enabled
           /\ steps[j].enabled

(***************************************************************************)
(* Properties of the text normalizer.                                      *)
(***************************************************************************)
\* C24: preprocess applied to its own result gives that result again.
C24_PreprocessIdempotent ==
    (pc = "answered" /\ ret.op = "preprocess") =>
        Preprocess(PreprocessorConfig, ret.value) = ret.value

\* C29: _clean_text puts whitespace in the place of every punctuation
\* character, so that the words on the two sides of a punctuation character
\* are separate tokens of the cleaned text.
C29_PunctuationSeparates ==
    (pc = "answered" /\ ret.op = "_clean_text") =>
        LET lowered == Lower(call.text)
            spaced == [ i \in 1..Len(lowered) |->
                          IF lowered[i] \in Punctuation THEN " "
                          ELSE lowered[i] ]
        IN  Tokenize(ret.value) = Split(spaced)

\* C25: whatever the interleaving of concurrent preprocess_cached calls on
\* one preprocessor, each call returns the preprocessed form of its own
\* text, and the cache holds at most its capacity of entries, one per text,
\* each with the preprocessed form of its text.
C25_CachedCallsIsolated ==
    /\ \A t \in Threads :
           tpc[t] = "done" =>
               local[t].result = Preprocess(PreprocessorConfig, local[t].text)
    /\ Len(cache) <= maxsize
    /\ \A i, j \in 1..Len(cache) : cache[i].key = cache[j].key => i = j
    /\ \A i \in 1..Len(cache) :
           cache[i].value = Preprocess(PreprocessorConfig, cache[i].key)

\* C25 witness: two calls for the same text both missed and both computed
\* and stored it, with the cache full.
C25_Witness ==
    /\ \E t, u \in Threads :
           /\ t # u
           /\ tpc[t] = "done" /\ tpc[u] = "done"
           /\ local[t].text = local[u].text
           /\ ~local[t].hit /\ ~local[u].hit
    /\ Len(cache) = maxsize

============================================================================
